---- MODULE Spec2Model ----
(***************************************************************************)
(* Model of removal.py: the comparator (decide_best_method), the saliency  *)
(* gate (needs_background_removal), the compositor                         *)
(* (replace_with_white_background) and the directory driver                *)
(* (process_directory / process_and_save / process_image).                 *)
(*                                                                         *)
(* Images are flat sequences of pixels (every operation of the program on  *)
(* pixels is pixel-wise, so the row/column layout is not kept); a pixel is *)
(* a sequence of 3 (RGB) or 4 (RGBA) channel values in 0..255.             *)
(*                                                                         *)
(* Scores are fixed-point numbers: the integer Unit stands for 1.0.  Unit  *)
(* is a multiple of 4, of 5 and of both pixel counts, and the library      *)
(* metrics are drawn from multiples of 4, so that count/size, the          *)
(* thresholds 0.2 and 0.4 and the division by 4 of the composite scores    *)
(* are all exact.                                                          *)
(***************************************************************************)
EXTENDS Integers, Sequences, FiniteSets, TLC

VARIABLES
    pc,               \* position of the running program
    listing,          \* os.listdir(input_dir): file names, in listing order
    idx,              \* position of the for loop of process_directory in listing
    out_exists,       \* os.path.exists(output_dir)
    out_files,        \* output directory: file name -> saved image
    original_image,   \* process_image: local original_image
    output_u2net,     \* process_image: local output_u2net (an array)
    output_rembg,     \* process_image: local output_rembg (an array)
    best_output,      \* reference held by best_output: the NAME of the array it aliases
    best_method,      \* label returned by decide_best_method
    processed_image,  \* reference returned by replace_with_white_background
    score_ssim,       \* decide_best_method: compare_images(...)
    score_foreground, \* decide_best_method: foreground_pixel_analysis(output_u2net)
    score_edge,       \* decide_best_method: edge_similarity(...)
    score_hist,       \* decide_best_method: histogram_difference(...)
    saliency_score,   \* needs_background_removal: np.mean(saliency_map)
    image,            \* replace_with_white_background: the array as it was passed in
    flat_once,        \* result of one application of replace_with_white_background
    flat_twice        \* result of applying it to its own result

vars == <<pc, listing, idx, out_exists, out_files, original_image, output_u2net,
          output_rembg, best_output, best_method, processed_image, score_ssim,
          score_foreground, score_edge, score_hist, saliency_score, image,
          flat_once, flat_twice>>

(***************************************************************************)
(* Bounds                                                                  *)
(***************************************************************************)
NumPixels == 2      \* pixels per image in the directory driver and the compositor
DecidePixels == 5   \* pixels per candidate when the comparator is run on its own
MaxFiles == 3       \* longest directory listing

None == "None"       \* a local that holds no value
NoImage == << >>     \* an array local that holds no array

(***************************************************************************)
(* Fixed-point scores                                                      *)
(***************************************************************************)
Unit == 20 * NumPixels * DecidePixels  \* the score 1.0
Tick == Unit \div 5                    \* 0.2: step of the drawn metric values
Ticks(lo, hi) == {t \in lo..hi : t % Tick = 0}

(***************************************************************************)
(* File names: sequences of one-character strings                          *)
(***************************************************************************)
UpperCase == <<"A", "B", "C", "E", "G", "J", "N", "P", "T", "X">>
LowerCase == <<"a", "b", "c", "e", "g", "j", "n", "p", "t", "x">>

\* str.lower() on one character
lower_char(c) ==
    IF \E i \in DOMAIN UpperCase : UpperCase[i] = c
    THEN LowerCase[CHOOSE i \in DOMAIN UpperCase : UpperCase[i] = c]
    ELSE c

\* filename.lower()
lower(s) == [i \in 1..Len(s) |-> lower_char(s[i])]

\* s.endswith(suffix)
endswith(s, suffix) ==
    /\ Len(s) >= Len(suffix)
    /\ SubSeq(s, Len(s) - Len(suffix) + 1, Len(s)) = suffix

image_extensions ==
    { <<".", "j", "p", "g">>, <<".", "j", "p", "e", "g">>, <<".", "p", "n", "g">> }

\* the test of line 175: filename.lower().endswith(image_extensions)
Eligible(filename) == \E ext \in image_extensions : endswith(lower(filename), ext)

\* os.path.splitext(filename)[0]: everything before the last dot, unless only
\* dots precede it (a leading-dot name has no extension)
splitext_root(s) ==
    LET dots == {i \in 1..Len(s) : s[i] = "."}
    IN  IF dots = {} THEN s
        ELSE LET dotIndex == CHOOSE i \in dots : \A j \in dots : j <= i
             IN  IF \E k \in 1..(dotIndex - 1) : s[k] # "."
                 THEN SubSeq(s, 1, dotIndex - 1)
                 ELSE s

\* line 177: the name of the output file inside output_dir
output_path(filename) == splitext_root(filename) \o <<".", "p", "n", "g">>

\* names a directory may hold: two images with the same base name, a third
\* image, and a file that is no image
FileNames ==
    { <<"a", ".", "j", "p", "g">>,
      <<"a", ".", "P", "N", "G">>,
      <<"b", ".", "J", "P", "e", "G">>,
      <<"c", ".", "t", "x", "t">> }

RECURSIVE SeqsOver(_, _)
\* the sequences of distinct elements of S of length n
SeqsOver(S, n) ==
    IF n = 0 THEN { <<>> }
    ELSE UNION { { Append(q, x) : x \in S \ {q[i] : i \in 1..Len(q)} } : q \in SeqsOver(S, n - 1) }

\* os.listdir(input_dir): distinct names, in an arbitrary order
Listings == UNION { SeqsOver(FileNames, n) : n \in 0..MaxFiles }

(***************************************************************************)
(* Images                                                                  *)
(***************************************************************************)
Pixels == 1..NumPixels

\* cv2.imread + cvtColor(BGR2RGB): the decoded 3-channel image of a file
DecodedImages == { [i \in Pixels |-> <<10, 20, 30>>] }

\* postprocess: the thresholded network mask, 0 or 255 per pixel
Masks == [Pixels -> {0, 255}]

\* cv2.bitwise_and of a channel value with a mask value that is 0 or 255
bitwise_and(v, m) == IF m = 255 THEN v ELSE 0

\* remove_background_u2net: colour ANDed with the mask, mask as alpha
remove_background_u2net(img, mask) ==
    [i \in DOMAIN img |->
        << bitwise_and(img[i][1], mask[i]), bitwise_and(img[i][2], mask[i]),
           bitwise_and(img[i][3], mask[i]), mask[i] >>]

\* the mattes the external remover may produce: one alpha value over the image
Mattes == { [i \in Pixels |-> a] : a \in {0, 128, 255} }

\* remove_background_rembg: the input's colour with the remover's matte as alpha
remove_background_rembg(img, matte) ==
    [i \in DOMAIN img |-> Append(img[i], matte[i])]

\* replace_with_white_background doing what the comment of line 139 says:
\* the colour set to white and the alpha "kept intact"
replace_with_white_background_keeps_alpha(img) ==
    IF Len(img[1]) = 4
    THEN [i \in DOMAIN img |->
            IF img[i][4] = 0 THEN <<255, 255, 255, img[i][4]>> ELSE img[i]]
    ELSE img

\* one channel value blended over white by its alpha
blend_over_white(v, a) == (v * a + 255 * (255 - a)) \div 255

\* replace_with_white_background blending every pixel over white by its
\* alpha and leaving the alpha channel as it was
replace_with_white_background_blend(img) ==
    IF Len(img[1]) = 4
    THEN [i \in DOMAIN img |->
            << blend_over_white(img[i][1], img[i][4]), blend_over_white(img[i][2], img[i][4]),
               blend_over_white(img[i][3], img[i][4]), img[i][4] >>]
    ELSE img

\* replace_with_white_background, the contents of the array after the call
\* (the assignment of line 139 is made in the array that was passed, and that
\* same array is returned)
replace_with_white_background(img) ==
    IF Len(img[1]) = 4
    THEN [i \in DOMAIN img |->
            IF img[i][4] = 0 THEN <<255, 255, 255, 255>> ELSE img[i]]
    ELSE img

(***************************************************************************)
(* Comparator and saliency gate                                            *)
(***************************************************************************)
\* foreground_pixel_analysis: count_nonzero(alpha) / alpha.size
foreground_pixel_analysis(output_img) ==
    (Cardinality({i \in DOMAIN output_img : output_img[i][4] # 0}) * Unit)
        \div Len(output_img)

\* compare_images, edge_similarity, histogram_difference: the values the
\* library metric can return for a pair; identical inputs score exactly 1
MetricValues(img1, img2, S) == IF img1 = img2 THEN {Unit} ELSE S

threshold == (2 * Unit) \div 5                  \* 0.4
min_foreground_threshold == Unit \div 5         \* 0.2

\* needs_background_removal with the comparison made inclusive
needs_background_removal_inclusive(saliency) == saliency <= threshold

\* needs_background_removal, given the mean of the saliency map
needs_background_removal(saliency) == saliency < threshold

\* line 102
u2net_score(ssim, foreground, edge, hist) ==
    (ssim + foreground + edge + hist) \div 4

\* line 103 with the last term not complemented
rembg_score_hist_not_complemented(ssim, foreground, edge, hist) ==
    (Unit - ssim + (Unit - foreground) + (Unit - edge) + hist) \div 4

\* line 103
rembg_score(ssim, foreground, edge, hist) ==
    (Unit - ssim + (Unit - foreground) + (Unit - edge) + (Unit - hist)) \div 4

\* decide_best_method with ties given to the network candidate
decide_best_method_tie_to_u2net(ssim, foreground, edge, hist, saliency) ==
    IF needs_background_removal(saliency) /\ foreground < min_foreground_threshold
    THEN [output |-> "original_image", method |-> "Original"]
    ELSE LET u == (ssim + foreground + edge + hist) \div 4
             r == (Unit - ssim + (Unit - foreground) + (Unit - edge) + (Unit - hist)) \div 4
         IN  [output |-> IF u >= r THEN "output_u2net" ELSE "output_rembg",
              method |-> IF u >= r THEN "U-2-Net" ELSE "rembg"]

\* decide_best_method with the comparison of line 105 turned round
decide_best_method_lower_wins(ssim, foreground, edge, hist, saliency) ==
    IF needs_background_removal(saliency) /\ foreground < min_foreground_threshold
    THEN [output |-> "original_image", method |-> "Original"]
    ELSE LET u == (ssim + foreground + edge + hist) \div 4
             r == (Unit - ssim + (Unit - foreground) + (Unit - edge) + (Unit - hist)) \div 4
         IN  [output |-> IF u < r THEN "output_u2net" ELSE "output_rembg",
              method |-> IF u < r THEN "U-2-Net" ELSE "rembg"]

\* decide_best_method, lines 96-108: the array it returns (by name) and the label
decide_best_method(ssim, foreground, edge, hist, saliency) ==
    IF needs_background_removal(saliency) /\ foreground < min_foreground_threshold
    THEN [output |-> "original_image", method |-> "Original"]
    ELSE LET u == u2net_score(ssim, foreground, edge, hist)
             r == rembg_score(ssim, foreground, edge, hist)
         IN  [output |-> IF u > r THEN "output_u2net" ELSE "output_rembg",
              method |-> IF u > r THEN "U-2-Net" ELSE "rembg"]

(***************************************************************************)
(* Directory driver: process_directory, process_and_save, process_image    *)
(***************************************************************************)
NoFiles == [n \in {} |-> None]

\* what process_image hands back when one of its stages raised
Raised == NoImage

\* process_and_save opening the output file before process_image runs: a
\* stage that raises then leaves an empty file at the output path
process_and_save_opens_first(files, path, processed) ==
    [n \in DOMAIN files \cup {path} |-> IF n = path THEN processed ELSE files[n]]

\* process_and_save: the output directory after the call. `processed` is what
\* process_image produced: the image it returned, or Raised when a stage
\* raised (line 165 is then never reached)
process_and_save(files, path, processed) ==
    IF processed = Raised
    THEN files
    ELSE [n \in DOMAIN files \cup {path} |-> IF n = path THEN processed ELSE files[n]]

\* the array a reference names
Deref(ref) ==
    CASE ref = "original_image" -> original_image
      [] ref = "output_u2net" -> output_u2net
      [] ref = "output_rembg" -> output_rembg

\* the values the pipeline draws for the three library metrics and the saliency mean
PipelineMetrics == {-Unit, Unit}
PipelineSaliency == {0, Unit}

DecideVarsUnchanged ==
    UNCHANGED <<score_ssim, score_foreground, score_edge, score_hist, saliency_score>>
FlattenVarsUnchanged == UNCHANGED <<image, flat_once, flat_twice>>
DirVarsUnchanged == UNCHANGED <<listing, idx, out_exists, out_files>>

Init ==
    /\ pc = "makedirs"
    /\ listing \in Listings
    /\ idx = 1
    /\ out_exists \in BOOLEAN
    /\ out_files = NoFiles
    /\ original_image = NoImage /\ output_u2net = NoImage /\ output_rembg = NoImage
    /\ best_output = None /\ best_method = None /\ processed_image = None
    /\ score_ssim = None /\ score_foreground = None /\ score_edge = None
    /\ score_hist = None /\ saliency_score = None
    /\ image = NoImage /\ flat_once = NoImage /\ flat_twice = NoImage

\* lines 170-171
MakeDirs ==
    /\ pc = "makedirs"
    /\ out_exists' = TRUE
    /\ pc' = "loop"
    /\ UNCHANGED <<listing, idx, out_files, original_image, output_u2net, output_rembg,
                   best_output, best_method, processed_image>>
    /\ DecideVarsUnchanged /\ FlattenVarsUnchanged

\* line 174: the listing is exhausted, process_directory returns
LoopDone ==
    /\ pc = "loop"
    /\ idx > Len(listing)
    /\ pc' = "done"
    /\ UNCHANGED <<original_image, output_u2net, output_rembg, best_output, best_method,
                   processed_image>>
    /\ DirVarsUnchanged /\ DecideVarsUnchanged /\ FlattenVarsUnchanged

\* line 175 false: the file is passed over
SkipFile ==
    /\ pc = "loop"
    /\ idx <= Len(listing)
    /\ ~Eligible(listing[idx])
    /\ idx' = idx + 1
    /\ UNCHANGED <<pc, listing, out_exists, out_files, original_image, output_u2net,
                   output_rembg, best_output, best_method, processed_image>>
    /\ DecideVarsUnchanged /\ FlattenVarsUnchanged

\* lines 175-178, 164, 112-113: the file is eligible; process_image decodes it
Imread ==
    /\ pc = "loop"
    /\ idx <= Len(listing)
    /\ Eligible(listing[idx])
    /\ \E img \in DecodedImages : original_image' = img
    /\ pc' = "u2net"
    /\ UNCHANGED <<output_u2net, output_rembg, best_output, best_method, processed_image>>
    /\ DirVarsUnchanged /\ DecideVarsUnchanged /\ FlattenVarsUnchanged

\* lines 175-178, 164, 112-113: the file is eligible and cannot be decoded
\* (imread returns None and cvtColor raises); nothing catches the exception
ImreadRaises ==
    /\ pc = "loop"
    /\ idx <= Len(listing)
    /\ Eligible(listing[idx])
    /\ out_files' = process_and_save(out_files, output_path(listing[idx]), Raised)
    /\ pc' = "raised"
    /\ UNCHANGED <<listing, idx, out_exists, original_image, output_u2net, output_rembg,
                   best_output, best_method, processed_image>>
    /\ DecideVarsUnchanged /\ FlattenVarsUnchanged

\* line 116
U2net ==
    /\ pc = "u2net"
    /\ \E mask \in Masks : output_u2net' = remove_background_u2net(original_image, mask)
    /\ pc' = "rembg"
    /\ UNCHANGED <<original_image, output_rembg, best_output, best_method, processed_image>>
    /\ DirVarsUnchanged /\ DecideVarsUnchanged /\ FlattenVarsUnchanged

\* line 117
Rembg ==
    /\ pc = "rembg"
    /\ \E matte \in Mattes : output_rembg' = remove_background_rembg(original_image, matte)
    /\ pc' = "decide"
    /\ UNCHANGED <<original_image, output_u2net, best_output, best_method, processed_image>>
    /\ DirVarsUnchanged /\ DecideVarsUnchanged /\ FlattenVarsUnchanged

\* line 120: decide_best_method with the metrics and the saliency mean the
\* libraries return; its locals end with the call
Decide ==
    /\ pc = "decide"
    /\ \E ssim \in MetricValues(output_u2net, output_rembg, PipelineMetrics),
          edge \in MetricValues(output_u2net, output_rembg, PipelineMetrics),
          hist \in MetricValues(output_u2net, output_rembg, PipelineMetrics),
          saliency \in PipelineSaliency :
            LET d == decide_best_method(ssim, foreground_pixel_analysis(output_u2net),
                                        edge, hist, saliency)
            IN  /\ best_output' = d.output
                /\ best_method' = d.method
    /\ pc' = "flatten"
    /\ UNCHANGED <<original_image, output_u2net, output_rembg, processed_image>>
    /\ DirVarsUnchanged /\ DecideVarsUnchanged /\ FlattenVarsUnchanged

\* line 123: replace_with_white_background(best_output) writes into the array
\* best_output refers to and returns that array
Flatten ==
    /\ pc = "flatten"
    /\ original_image' = IF best_output = "original_image"
                         THEN replace_with_white_background(original_image)
                         ELSE original_image
    /\ output_u2net' = IF best_output = "output_u2net"
                       THEN replace_with_white_background(output_u2net)
                       ELSE output_u2net
    /\ output_rembg' = IF best_output = "output_rembg"
                       THEN replace_with_white_background(output_rembg)
                       ELSE output_rembg
    /\ processed_image' = best_output
    /\ pc' = "save"
    /\ UNCHANGED <<best_output, best_method>>
    /\ DirVarsUnchanged /\ DecideVarsUnchanged /\ FlattenVarsUnchanged

\* lines 126, 165: process_image returns, the PNG is written, the loop goes on
Save ==
    /\ pc = "save"
    /\ out_files' = process_and_save(out_files, output_path(listing[idx]),
                                     Deref(processed_image))
    /\ idx' = idx + 1
    /\ pc' = "loop"
    /\ original_image' = NoImage /\ output_u2net' = NoImage /\ output_rembg' = NoImage
    /\ best_output' = None /\ best_method' = None /\ processed_image' = None
    /\ UNCHANGED <<listing, out_exists>>
    /\ DecideVarsUnchanged /\ FlattenVarsUnchanged

\* a stage of process_image raises (inference, external removal, metric or
\* saliency failure); nothing catches it, so process_and_save and
\* process_directory are left by the exception
StageRaises ==
    /\ pc \in {"u2net", "rembg", "decide"}
    /\ out_files' = process_and_save(out_files, output_path(listing[idx]), Raised)
    /\ pc' = "raised"
    /\ original_image' = NoImage /\ output_u2net' = NoImage /\ output_rembg' = NoImage
    /\ best_output' = None /\ best_method' = None /\ processed_image' = None
    /\ UNCHANGED <<listing, idx, out_exists>>
    /\ DecideVarsUnchanged /\ FlattenVarsUnchanged

Next ==
    \/ MakeDirs \/ LoopDone \/ SkipFile \/ Imread \/ ImreadRaises
    \/ U2net \/ Rembg \/ Decide \/ Flatten \/ Save \/ StageRaises

Spec == Init /\ [][Next]_vars

(***************************************************************************)
(* The comparator on its own: decide_best_method applied to drawn inputs   *)
(***************************************************************************)
\* the decoded image the candidates of this specification are made from
DecideOriginal == [i \in 1..DecidePixels |-> <<10, 20, 30>>]

\* postprocess: the thresholded network masks over that image
DecideMasks == [1..DecidePixels -> {0, 255}]

\* the external remover's candidates: a half-transparent matte over the
\* image, or the very image the network path produced
DecideRembgOutputs(u2net) ==
    { remove_background_rembg(DecideOriginal, [i \in 1..DecidePixels |-> 128]), u2net }

PipelineVarsUnchanged == UNCHANGED <<listing, idx, out_exists, out_files, processed_image>>

InitDecide ==
    /\ pc = "call_decide"
    /\ listing = << >> /\ idx = 1 /\ out_exists = TRUE /\ out_files = NoFiles
    /\ original_image = DecideOriginal
    /\ output_u2net \in { remove_background_u2net(DecideOriginal, mask) : mask \in DecideMasks }
    /\ output_rembg \in DecideRembgOutputs(output_u2net)
    /\ score_ssim \in MetricValues(output_u2net, output_rembg, Ticks(-Unit, Unit))
    /\ score_edge \in MetricValues(output_u2net, output_rembg, Ticks(-Unit, Unit))
    /\ score_hist \in MetricValues(output_u2net, output_rembg, Ticks(-Unit, Unit))
    /\ saliency_score \in Ticks(0, Unit)
    /\ score_foreground = None
    /\ best_output = None /\ best_method = None /\ processed_image = None
    /\ image = NoImage /\ flat_once = NoImage /\ flat_twice = NoImage

\* lines 90-108 on the drawn candidates, metrics and saliency mean
CallDecide ==
    /\ pc = "call_decide"
    /\ score_foreground' = foreground_pixel_analysis(output_u2net)
    /\ LET d == decide_best_method(score_ssim, score_foreground', score_edge,
                                   score_hist, saliency_score)
       IN  /\ best_output' = d.output
           /\ best_method' = d.method
    /\ pc' = "decided"
    /\ UNCHANGED <<original_image, output_u2net, output_rembg, score_ssim, score_edge,
                   score_hist, saliency_score>>
    /\ PipelineVarsUnchanged /\ FlattenVarsUnchanged

NextDecide == CallDecide

SpecDecide == InitDecide /\ [][NextDecide]_vars

(***************************************************************************)
(* The compositor on its own: replace_with_white_background applied to a   *)
(* drawn image, and then to its own result                                 *)
(***************************************************************************)
Colours == { <<0, 0, 0>>, <<10, 20, 30>>, <<255, 255, 255>> }
Alphas == {0, 128, 255}

\* images with an alpha channel and images without one
FlattenInputs ==
    [Pixels -> { Append(c, a) : c \in Colours, a \in Alphas }] \cup [Pixels -> Colours]

InitFlatten ==
    /\ pc = "call_flatten"
    /\ image \in FlattenInputs
    /\ flat_once = NoImage /\ flat_twice = NoImage
    /\ listing = << >> /\ idx = 1 /\ out_exists = TRUE /\ out_files = NoFiles
    /\ original_image = NoImage /\ output_u2net = NoImage /\ output_rembg = NoImage
    /\ best_output = None /\ best_method = None /\ processed_image = None
    /\ score_ssim = None /\ score_foreground = None /\ score_edge = None
    /\ score_hist = None /\ saliency_score = None

\* lines 130-145 on the drawn image
FlattenOnce ==
    /\ pc = "call_flatten"
    /\ flat_once' = replace_with_white_background(image)
    /\ pc' = "flattened"
    /\ UNCHANGED <<image, flat_twice, original_image, output_u2net, output_rembg,
                   best_output, best_method>>
    /\ PipelineVarsUnchanged /\ DecideVarsUnchanged

\* lines 130-145 on the result of the first call
FlattenTwice ==
    /\ pc = "flattened"
    /\ flat_twice' = replace_with_white_background(flat_once)
    /\ pc' = "flattened_twice"
    /\ UNCHANGED <<image, flat_once, original_image, output_u2net, output_rembg,
                   best_output, best_method>>
    /\ PipelineVarsUnchanged /\ DecideVarsUnchanged

NextFlatten == FlattenOnce \/ FlattenTwice

SpecFlatten == InitFlatten /\ [][NextFlatten]_vars

(***************************************************************************)
(* Properties                                                              *)
(***************************************************************************)
\* the override condition as the specification states it: mean saliency
\* below 0.4 and foreground ratio below 0.2
OverrideCondition ==
    /\ saliency_score * 5 < 2 * Unit
    /\ score_foreground * 5 < Unit

\* the composite scores as the specification writes them
ScoreA == (score_ssim + score_foreground + score_edge + score_hist) \div 4
ScoreB == ((Unit - score_ssim) + (Unit - score_foreground) + (Unit - score_edge)
           + (Unit - score_hist)) \div 4

MetricSum == score_ssim + score_foreground + score_edge + score_hist

\* C1: when the override is not taken, the network candidate is returned
\* exactly when scoreA > scoreB, the external-library candidate in every other
\* case (ties included), and the label always names the returned candidate.
StrictlyHigherScoreWins ==
    pc = "decided" =>
        /\ ~OverrideCondition =>
              IF ScoreA > ScoreB
              THEN best_output = "output_u2net"
              ELSE best_output = "output_rembg"
        /\ best_output = "output_u2net" <=> best_method = "U-2-Net"
        /\ best_output = "output_rembg" <=> best_method = "rembg"
        /\ best_output = "original_image" <=> best_method = "Original"

\* C1 witness: a tie that is not overridden went to the external-library candidate
TieWentToRembg ==
    /\ pc = "decided"
    /\ ~OverrideCondition
    /\ ScoreA = ScoreB
    /\ best_output = "output_rembg"

IdenticalCandidatesTie ==
    (pc = "decided" /\ output_u2net = output_rembg /\ ~OverrideCondition) =>
        /\ ScoreA = ScoreB
        /\ best_output = "output_rembg"

\* C3 amended: identical candidates score 1 on the three pair metrics, so when
\* the override is not taken scoreA exceeds scoreB by (1 + foregroundRatio)/2
\* and the network candidate is returned.
IdenticalCandidatesChooseU2net ==
    (pc = "decided" /\ output_u2net = output_rembg /\ ~OverrideCondition) =>
        /\ score_ssim = Unit /\ score_edge = Unit /\ score_hist = Unit
        /\ 2 * (ScoreA - ScoreB) = Unit + score_foreground
        /\ ScoreA > ScoreB
        /\ best_output = "output_u2net"
        /\ best_method = "U-2-Net"

\* C3 witness: identical candidates with no foreground at all, not overridden
IdenticalEmptyCandidatesDecided ==
    /\ pc = "decided"
    /\ output_u2net = output_rembg
    /\ score_foreground = 0
    /\ best_method = "U-2-Net"

FlattenIdempotent ==
    pc = "flattened_twice" => flat_twice = flat_once

\* C5 witness: flattened twice, and the first flattening changed the image
FlattenedTwiceAfterChange ==
    /\ pc = "flattened_twice"
    /\ flat_once # image

\* C6: when an image fails, every eligible file listed after it still has its
\* PNG written by the time the driver has ended.
LaterFilesSurviveFailure ==
    pc = "raised" =>
        \A j \in (idx + 1)..Len(listing) :
            Eligible(listing[j]) => output_path(listing[j]) \in DOMAIN out_files

\* C7: after a run in which every eligible image succeeded, the output
\* directory holds exactly the PNGs named after the eligible inputs, as many
\* as there are eligible inputs.
OnePngPerEligibleInput ==
    pc = "done" =>
        LET eligible == {j \in 1..Len(listing) : Eligible(listing[j])}
        IN  /\ DOMAIN out_files = {output_path(listing[j]) : j \in eligible}
            /\ Cardinality(DOMAIN out_files) = Cardinality(eligible)

\* C8: flattening the chosen candidate leaves both candidate arrays as they were.
FlattenLeavesCandidates ==
    [][pc = "flatten" =>
          /\ output_u2net' = output_u2net
          /\ output_rembg' = output_rembg]_vars

\* C9: the output directory changes only by the save that follows all the
\* stages of the current image, and only at that image's output path; a stage
\* that raises leaves every file as it was.
NoPartialOutput ==
    [][/\ out_files' # out_files =>
            /\ pc = "save"
            /\ original_image # NoImage /\ output_u2net # NoImage /\ output_rembg # NoImage
            /\ best_output # None /\ best_method # None /\ processed_image # None
            /\ DOMAIN out_files' = DOMAIN out_files \cup {output_path(listing[idx])}
            /\ \A n \in DOMAIN out_files :
                  n # output_path(listing[idx]) => out_files'[n] = out_files[n]
            /\ out_files'[output_path(listing[idx])] = Deref(processed_image)
       /\ pc' = "raised" => out_files' = out_files]_vars

\* C9 witness: an image failed whose output path already held a file
FailedOverExistingOutput ==
    /\ pc = "raised"
    /\ output_path(listing[idx]) \in DOMAIN out_files

\* C10: the two composite scores add up to 1, so when the override is not
\* taken the network candidate is returned exactly when the four metrics add
\* up to more than 2.
ScoresComplementary ==
    pc = "decided" =>
        /\ u2net_score(score_ssim, score_foreground, score_edge, score_hist)
             + rembg_score(score_ssim, score_foreground, score_edge, score_hist) = Unit
        /\ ~OverrideCondition =>
              /\ best_output = "output_u2net" <=> MetricSum > 2 * Unit
              /\ best_output = "output_rembg" <=> MetricSum <= 2 * Unit

\* C10 witness: the network candidate won although one metric is negative
U2netWonWithNegativeMetric ==
    /\ pc = "decided"
    /\ best_output = "output_u2net"
    /\ score_hist < 0

====
